---- MODULE Spec2Model ----
(***************************************************************************)
(* A model of stumpy.stumpi: the incremental (streaming) top-k matrix      *)
(* profile, src/stumpy/stumpi.py.                                          *)
(*                                                                         *)
(* Arithmetic is exact.  A raw data point is a pair <<isfinite, value>>;   *)
(* the buffer T holds integers (0 at a non-finite point, as the code       *)
(* stores it).  A mean is kept as the pair <<TRUE, m * mean>> (the window  *)
(* sum) or MuInf, a standard deviation as <<TRUE, m^2 * variance>> or      *)
(* SigmaNaN.  A z-normalized distance D = sqrt(2m(1 - rho)) is kept as the *)
(* fraction <<num, den>> = -sign(rho) * rho^2 in lowest terms, which       *)
(* grows strictly with D (from -1/1 at D = 0 to 1/1 at D = 2 sqrt(m));     *)
(* +inf is <<1, 0>>.  Two distances are equal iff their pairs are equal.   *)
(*                                                                         *)
(* Arrays are TLA+ sequences (1-based); every index the program stores or  *)
(* computes (I, left_I, l, idx) keeps the program's 0-based value, and     *)
(* array position p of the code is element p + 1 of the sequence.          *)
(***************************************************************************)
EXTENDS Integers, Sequences, FiniteSets, TLC

VARIABLES
    pc,          \* "new" (arguments chosen), "ready" (constructed), "failed"
    arg_T,       \* the T argument of __init__: raw points
    m,           \* self._m
    k,           \* self._k
    egress,      \* self._egress
    T,           \* self._T
    T_isfinite,  \* self._T_isfinite
    M_T,         \* self._M_T
    Sigma_T,     \* self._Σ_T
    QT,          \* self._QT
    P,           \* self._P
    I,           \* self._I
    left_P,      \* self._left_P
    left_I,      \* self._left_I
    n_appended,  \* self._n_appended
    excl_zone,   \* self._excl_zone
    stream,      \* history: every raw point given so far (seed, then updates)
    recomputed,  \* history: positions whose left_P the loop of __init__ recomputed
    t_drop,      \* history: the t_drop of the latest update
    snap         \* values a caller obtained from the accessors

vars == <<pc, arg_T, m, k, egress, T, T_isfinite, M_T, Sigma_T, QT, P, I,
          left_P, left_I, n_appended, excl_zone, stream, recomputed, t_drop, snap>>

\* the state object (and the arguments it was built from)
stateVars == <<pc, arg_T, m, k, egress, T, T_isfinite, M_T, Sigma_T, QT, P, I,
               left_P, left_I, n_appended, excl_zone>>

(***************************************************************************)
(* Bounds of the model.                                                    *)
(***************************************************************************)
MaxUpdates == 3

MaxK == 2

WindowSizes == {3}

Finite(v) == <<TRUE, v>>

\* a non-finite point (nan, inf): its second component is not a number the
\* program may compute with
NonFinite == <<FALSE, 1>>

\* the finite values a point takes
Values == {0, 1}

RawPoints == {Finite(v) : v \in Values} \cup {NonFinite}

RECURSIVE SeqsOfLen(_, _)
SeqsOfLen(S, n) ==
    IF n = 0 THEN {<<>>}
    ELSE {Append(s, x) : s \in SeqsOfLen(S, n - 1), x \in S}

\* the lengths of the seed series: from one point fewer than the window (a
\* refused construction) and exactly the window (one subsequence) to four
\* subsequences
SeedLengths == 2..6

\* the seed series: finite points (non-finite points arrive through update)
Seeds == UNION {SeqsOfLen(RawPoints \ {NonFinite}, n) : n \in SeedLengths}

(***************************************************************************)
(* Values.                                                                 *)
(***************************************************************************)
Inf == <<1, 0>>

MuInf == <<FALSE, 0>>

SigmaNaN == <<FALSE, 0>>

IsFiniteD(d) == d[2] /= 0

\* a < b on distances (np.float64 <, with +inf)
DLess(a, b) == a[1] * b[2] < b[1] * a[2]

DLeq(a, b) == ~DLess(b, a)

Abs(x) == IF x < 0 THEN -x ELSE x

Min(a, b) == IF a < b THEN a ELSE b

Max(a, b) == IF a > b THEN a ELSE b

RECURSIVE GCD(_, _)
GCD(a, b) == IF b = 0 THEN a ELSE GCD(b, a % b)

Frac(num, den) ==
    LET g == GCD(Abs(num), den) IN <<num \div g, den \div g>>

CeilDiv(a, b) == (a + b - 1) \div b

\* the array with the elements of f, evaluated once
Array(f) == <<>> \o f

\* np.isfinite
IsFinite(t) == t[1]

RECURSIVE Dot(_, _, _, _)
\* np.dot(A[i : i + len], A[j : j + len]), i and j 0-based
Dot(A, i, j, len) ==
    IF len = 0 THEN 0
    ELSE A[i + len] * A[j + len] + Dot(A, i, j, len - 1)

RECURSIVE SumFrom(_, _, _)
\* np.sum(A[i : i + len])
SumFrom(A, i, len) ==
    IF len = 0 THEN 0 ELSE A[i + len] + SumFrom(A, i, len - 1)

\* some element of B[i : i + len] is FALSE
AnyNonFinite(B, i, len) == \E x \in (i + 1)..(i + len) : ~B[x]

(***************************************************************************)
(* stumpy.config and stumpy.core: the primitives stumpi consumes.          *)
(***************************************************************************)
STUMPY_EXCL_ZONE_DENOM == 4

\* mutant: a window as long as the series is refused too
WindowTooLarge_strict(w, max_size) == w >= max_size

\* config error of core.check_window_size(m, max_size)
WindowTooLarge(w, max_size) == w > max_size

\* config error of stump(T, m, k): a non-positive k
BadK(kk) == kk < 1

\* core.compute_mean_std of the one window A[i : i + w]
compute_mean_std(A, i, w) ==
    LET s == SumFrom(A, i, w)
        q == Dot(A, i, i, w)
    IN <<Finite(s), Finite(w * q - s * s)>>

\* core._calculate_squared_distance (the value stands for its square root)
calculate_squared_distance(w, qt, mu_Q, sigma_Q, mu_T, sigma_T) ==
    IF ~mu_Q[1] \/ ~mu_T[1] THEN Inf
    ELSE IF sigma_Q[2] = 0 /\ sigma_T[2] = 0 THEN <<-1, 1>>
    ELSE IF sigma_Q[2] = 0 \/ sigma_T[2] = 0 THEN <<-1, 4>>
    ELSE LET a == w * qt - mu_Q[2] * mu_T[2]
             b == sigma_Q[2] * sigma_T[2]
         IN IF a >= 0 THEN Frac(-(a * a), b) ELSE Frac(a * a, b)

\* core.calculate_distance_profile
calculate_distance_profile(w, qt, mu_Q, sigma_Q, M, Sig) ==
    Array([j \in 1..Len(qt) |->
        calculate_squared_distance(w, qt[j], mu_Q, sigma_Q, M[j], Sig[j])])

\* core.apply_exclusion_zone(D, idx, excl_zone, np.inf), idx 0-based
apply_exclusion_zone(D, idx, e) ==
    Array([j \in 1..Len(D) |->
        IF j - 1 >= Max(0, idx - e) /\ j - 1 < Min(idx + e + 1, Len(D))
        THEN Inf ELSE D[j]])

\* mutant: side="left", the number of entries < d
searchsorted_left(row, d) == Cardinality({j \in 1..Len(row) : DLess(row[j], d)})

\* np.searchsorted(row, d, side="right"): the number of entries <= d
searchsorted_right(row, d) == Cardinality({j \in 1..Len(row) : DLeq(row[j], d)})

\* core._shift_insert_at_index(a, idx, v): a[idx + 1 :] = a[idx : -1]; a[idx] = v
shift_insert_at_index(a, idx, v) ==
    Array([j \in 1..Len(a) |->
        IF j - 1 < idx THEN a[j] ELSE IF j - 1 = idx THEN v ELSE a[j - 1]])

\* core.preprocess: the buffer with 0 at the non-finite points
preprocess_T(raw) == Array([j \in 1..Len(raw) |-> IF IsFinite(raw[j]) THEN raw[j][2] ELSE 0])

isfinite_of(raw) == Array([j \in 1..Len(raw) |-> IsFinite(raw[j])])

\* core.preprocess: mean and standard deviation of every window
preprocess_stats(A, fin, w) ==
    Array([j \in 1..(Len(A) - w + 1) |->
        IF AnyNonFinite(fin, j - 1, w) THEN <<MuInf, SigmaNaN>>
        ELSE compute_mean_std(A, j - 1, w)])

\* core.sliding_dot_product(Q, T) with Q = A[q : q + w]
sliding_dot_product(A, q, w) ==
    Array([j \in 1..(Len(A) - w + 1) |-> Dot(A, j - 1, q, w)])

(***************************************************************************)
(* stumpy.stump: the batch algorithm that seeds the state.  Row i holds    *)
(* the k nearest windows j with |i - j| > excl_zone at a finite distance,  *)
(* nearest first (the lower index first among equals), then +inf / -1.     *)
(***************************************************************************)
\* the distance between windows i and j (0-based) of buffer A
window_distance(A, fin, w, i, j) ==
    LET si == IF AnyNonFinite(fin, i, w) THEN <<MuInf, SigmaNaN>>
              ELSE compute_mean_std(A, i, w)
        sj == IF AnyNonFinite(fin, j, w) THEN <<MuInf, SigmaNaN>>
              ELSE compute_mean_std(A, j, w)
    IN calculate_squared_distance(w, Dot(A, i, j, w), si[1], si[2], sj[1], sj[2])

\* the nearest of the candidates cands of row i: least distance, then least index
nearest(dist, i, cands) ==
    CHOOSE j \in cands : \A j2 \in cands :
        \/ DLess(dist[i + 1][j + 1], dist[i + 1][j2 + 1])
        \/ (dist[i + 1][j + 1] = dist[i + 1][j2 + 1] /\ j <= j2)

RECURSIVE ranked(_, _, _, _)
\* the kk nearest candidates of row i in order, -1 where there is none
ranked(dist, i, cands, kk) ==
    IF kk = 0 THEN <<>>
    ELSE IF cands = {} THEN <<-1>> \o ranked(dist, i, cands, kk - 1)
    ELSE LET j == nearest(dist, i, cands)
         IN <<j>> \o ranked(dist, i, cands \ {j}, kk - 1)

stump(A, fin, w, kk, e) ==
    LET l == Len(A) - w + 1
        dist == Array([i \in 1..l |->
                    Array([j \in 1..l |-> window_distance(A, fin, w, i - 1, j - 1)])])
        cands(i) == {j \in 0..(l - 1) : Abs(i - j) > e /\ IsFiniteD(dist[i + 1][j + 1])}
        idx == Array([i \in 1..l |-> ranked(dist, i - 1, cands(i - 1), kk)])
        lidx == Array([i \in 1..l |->
                    ranked(dist, i - 1, {j \in cands(i - 1) : j < i - 1}, 1)[1]])
        dof(i, j) == IF j = -1 THEN Inf ELSE dist[i][j + 1]
    IN [P |-> Array([i \in 1..l |-> Array([r \in 1..kk |-> dof(i, idx[i][r])])]),
        I |-> idx,
        left_I |-> lidx,
        left_P |-> Array([i \in 1..l |-> dof(i, lidx[i])])]

(***************************************************************************)
(* Accessors (properties P_, I_, left_P_, left_I_, T_).                    *)
(***************************************************************************)
\* .flatten() when k = 1
P_ == IF k = 1 THEN Array([i \in 1..Len(P) |-> P[i][1]]) ELSE P

I_ == IF k = 1 THEN Array([i \in 1..Len(I) |-> I[i][1]]) ELSE I

left_P_ == left_P

left_I_ == left_I

T_ == T

\* whether the accessor hands out the state's own array (no .astype / .flatten copy)
T_returns_buffer == TRUE

NoSnap ==
    [taken |-> FALSE, P_ |-> <<>>, I_ |-> <<>>, left_P_ |-> <<>>, left_I_ |-> <<>>,
     T_ |-> <<>>, seen_P |-> <<>>, seen_I |-> <<>>, seen_left_P |-> <<>>,
     seen_left_I |-> <<>>, seen_T |-> <<>>, T_shared |-> FALSE]

(***************************************************************************)
(* Initial states: the arguments of a call stumpi(T, m, egress, k=k).      *)
(***************************************************************************)
Init ==
    /\ pc = "new"
    /\ arg_T \in Seeds
    /\ m \in WindowSizes
    /\ k \in 0..MaxK
    /\ egress \in BOOLEAN
    /\ T = <<>> /\ T_isfinite = <<>> /\ M_T = <<>> /\ Sigma_T = <<>> /\ QT = <<>>
    /\ P = <<>> /\ I = <<>> /\ left_P = <<>> /\ left_I = <<>>
    /\ n_appended = 0 /\ excl_zone = 0
    /\ stream = <<>> /\ recomputed = {} /\ t_drop = Finite(0)
    /\ snap = NoSnap

(***************************************************************************)
(* __init__                                                                *)
(***************************************************************************)
\* 0 & ~mask[i]: the bitwise and of the integer 0 with a boolean
ZeroAnd(b) == 0

\* the positions the loop of __init__ visits: np.flatnonzero(left_I >= 0 & ~mask),
\* which Python reads as left_I >= (0 & ~mask)
backfill_positions(lI, mask) ==
    {i \in 0..(Len(lI) - 1) : lI[i + 1] >= ZeroAnd(~mask[i + 1])}

\* the left profile after the mask assignment and the loop
backfill_left_P(A, M, Sig, w, Pm, Im, lI) ==
    LET mask == Array([i \in 1..Len(lI) |-> lI[i] = Im[i][1]])
        pos == backfill_positions(lI, mask)
    IN Array([i \in 1..Len(lI) |->
          IF (i - 1) \in pos
          THEN LET j == lI[i]
               IN calculate_squared_distance(w, Dot(A, i - 1, j, w),
                                             M[i], Sig[i], M[j + 1], Sig[j + 1])
          ELSE IF mask[i] THEN Pm[i][1] ELSE Inf])

Construct ==
    /\ pc = "new"
    /\ IF WindowTooLarge(m, Len(arg_T)) \/ BadK(k)
       THEN /\ pc' = "failed"
            /\ UNCHANGED <<arg_T, m, k, egress, T, T_isfinite, M_T, Sigma_T, QT, P, I,
                           left_P, left_I, n_appended, excl_zone, stream, recomputed,
                           t_drop, snap>>
       ELSE LET A == preprocess_T(arg_T)
                fin == isfinite_of(arg_T)
                e == CeilDiv(m, STUMPY_EXCL_ZONE_DENOM)
                mp == stump(A, fin, m, k, e)
                stats == preprocess_stats(A, fin, m)
                M == Array([i \in 1..Len(stats) |-> stats[i][1]])
                Sig == Array([i \in 1..Len(stats) |-> stats[i][2]])
                mask == Array([i \in 1..Len(mp.left_I) |-> mp.left_I[i] = mp.I[i][1]])
            IN /\ pc' = "ready"
               /\ T' = A
               /\ T_isfinite' = fin
               /\ excl_zone' = e
               /\ P' = mp.P
               /\ I' = mp.I
               /\ left_I' = mp.left_I
               /\ M_T' = M
               /\ Sigma_T' = Sig
               /\ left_P' = backfill_left_P(A, M, Sig, m, mp.P, mp.I, mp.left_I)
               /\ recomputed' = backfill_positions(mp.left_I, mask)
               /\ QT' = sliding_dot_product(A, Len(A) - m, m)
               /\ n_appended' = 0
               /\ stream' = arg_T
               /\ UNCHANGED <<arg_T, m, k, egress, t_drop, snap>>

(***************************************************************************)
(* Steps shared by _update_egress and _update.                             *)
(***************************************************************************)
\* a[:-1] = a[1:]: every element moves one slot to the front, the last one stays
shift_left(a) == Array([j \in 1..Len(a) |-> IF j < Len(a) THEN a[j + 1] ELSE a[j]])

set_last(a, v) == Array([j \in 1..Len(a) |-> IF j = Len(a) THEN v ELSE a[j]])

\* the value stored for the point t: t = 0 when it is not finite
stored_value(t) == IF IsFinite(t) THEN t[2] ELSE 0

\* mu_Q, sigma_Q of the newest window A[l : l + w]
newest_stats(A, fin, l, w) ==
    IF AnyNonFinite(fin, Len(fin) - w, w) THEN <<MuInf, SigmaNaN>>
    ELSE compute_mean_std(A, l, w)

\* mutant: QT_new allocated one element short (the first l entries only)
QT_recurrence_short(qt, A, l, w, td, t) ==
    Array([j \in 1..l |->
        IF j = 1 THEN Dot(A, 0, l, w)
        ELSE qt[j - 1] - A[j - 1] * td + A[w + j - 1] * t])

\* mutant: the departing product T[:l] * t_drop is not subtracted
QT_recurrence_keep(qt, A, l, w, td, t) ==
    Array([j \in 1..(l + 1) |->
        IF j = 1 THEN Dot(A, 0, l, w)
        ELSE qt[j - 1] + A[w + j - 1] * t])

\* QT_new[1:] = QT[:l] - T[:l] * t_drop + T[m:] * t;  QT_new[0] = sum(T[:m] * S[:m])
QT_recurrence(qt, A, l, w, td, t) ==
    Array([j \in 1..(l + 1) |->
        IF j = 1 THEN Dot(A, 0, l, w)
        ELSE qt[j - 1] - A[j - 1] * td + A[w + j - 1] * t])

\* mutant: the exclusion zone is not applied
distance_profile_unmasked(w, qt, stats, M, Sig, fin, e) ==
    LET D0 == calculate_distance_profile(w, qt, stats[1], stats[2], M, Sig)
    IN IF AnyNonFinite(fin, Len(fin) - w, w)
       THEN Array([j \in 1..Len(D0) |-> Inf]) ELSE D0

\* D: the distance profile of the newest window, forced to +inf when the window
\* holds a non-finite point, then masked around the last index
distance_profile(w, qt, stats, M, Sig, fin, e) ==
    LET D0 == calculate_distance_profile(w, qt, stats[1], stats[2], M, Sig)
        D1 == IF AnyNonFinite(fin, Len(fin) - w, w)
              THEN Array([j \in 1..Len(D0) |-> Inf]) ELSE D0
    IN apply_exclusion_zone(D1, Len(D1) - 1, e)

\* update_idx: the rows i < rows whose worst entry is beaten, D[i] < P[i, -1]
update_idx(D, Pm, rows) == {i \in 0..(rows - 1) : DLess(D[i + 1], Pm[i + 1][Len(Pm[i + 1])])}

\* for i in update_idx: the ranked insertion of D[i] into row i of P
insert_into_P(D, Pm, rows) ==
    Array([i \in 1..Len(Pm) |->
        IF (i - 1) \in update_idx(D, Pm, rows)
        THEN shift_insert_at_index(Pm[i], searchsorted_right(Pm[i], D[i]), D[i])
        ELSE Pm[i]])

\* mutant: the newest window's index overwrites the worst rank, I[i, -1] = new_index
insert_into_I_last(D, Pm, Im, rows, new_index) ==
    Array([i \in 1..Len(Im) |->
        IF (i - 1) \in update_idx(D, Pm, rows)
        THEN set_last(Im[i], new_index)
        ELSE Im[i]])

\* for i in update_idx: the insertion of the newest window's index at the same rank
insert_into_I(D, Pm, Im, rows, new_index) ==
    Array([i \in 1..Len(Im) |->
        IF (i - 1) \in update_idx(D, Pm, rows)
        THEN shift_insert_at_index(Im[i], searchsorted_right(Pm[i], D[i]), new_index)
        ELSE Im[i]])

RECURSIVE scan_profile(_, _, _, _, _)
\* for i, d in enumerate(D): if d < row[-1]: ranked insertion of (d, i + offset);
\* i counts the entries of D already scanned; the result is <<row of P, row of I>>
scan_profile(D, i, rowP, rowI, offset) ==
    IF i = Len(D) THEN <<rowP, rowI>>
    ELSE LET d == D[i + 1]
         IN IF DLess(d, rowP[Len(rowP)])
            THEN LET idx == searchsorted_right(rowP, d)
                 IN scan_profile(D, i + 1, shift_insert_at_index(rowP, idx, d),
                                 shift_insert_at_index(rowI, idx, i + offset), offset)
            ELSE scan_profile(D, i + 1, rowP, rowI, offset)

\* mutant: the worst rank instead of the best, <<P[-1, -1], I[-1, -1]>>
newest_left_worst(own) == <<own[1][Len(own[1])], own[2][Len(own[2])]>>

\* the newest window's left distance and index: its own top-1, <<P[-1, 0], I[-1, 0]>>
newest_left(own) == <<own[1][1], own[2][1]>>

\* np.full(k, np.inf) and np.full(k, -1)
empty_row_P(kk) == Array([r \in 1..kk |-> Inf])

empty_row_I(kk) == Array([r \in 1..kk |-> -1])

\* what a value obtained from the accessors shows after an update: T_ hands out
\* the buffer itself, which _update_egress rewrites in place and _update replaces
snap_after(in_place, newT) ==
    IF snap.taken /\ snap.T_shared
    THEN IF in_place THEN [snap EXCEPT !.seen_T = newT]
         ELSE [snap EXCEPT !.T_shared = FALSE]
    ELSE snap

UpdatesDone == Len(stream) - Len(arg_T)

(***************************************************************************)
(* _update_egress(t)                                                       *)
(***************************************************************************)
\* mutant: the front of the shifted buffer, self._T[0]
t_drop_egress_front(A, l, t) == Finite(A[1])

\* t_drop = self._T[l - 1], read after the shift and after T[-1] = t
t_drop_egress(A, l, t) == IF l >= 1 THEN Finite(A[l]) ELSE t

\* mutant: the flags are not shifted with the buffer
isfinite_egress_unshifted(fin, t) == set_last(fin, IsFinite(t))

\* T_isfinite[:-1] = T_isfinite[1:], then T_isfinite[-1] = isfinite(t)
isfinite_egress(fin, t) == set_last(shift_left(fin), IsFinite(t))

\* mutant: the buffer position of the newest window, without n_appended
neighbor_index_egress_local(D, appended) == Len(D) - 1

\* mutant: one too many, D.shape[0] + n_appended
neighbor_index_egress_plus1(D, appended) == Len(D) + appended

\* the index written into the existing rows: D.shape[0] + n_appended - 1
neighbor_index_egress(D, appended) == Len(D) + appended - 1

\* mutant: the neighbour's window end instead of its start, i + n_appended + m
own_offset_egress_end(appended) == appended + m

\* the offset of the indices written into the newest row: i + n_appended
own_offset_egress(appended) == appended

UpdateEgress(t) ==
    LET n == Len(T)
        l == n - m + 1 - 1
        A == set_last(shift_left(T), stored_value(t))
        appended == n_appended + 1
        QTs == shift_left(QT)
        td == t_drop_egress(A, l, t)
        fin == isfinite_egress(T_isfinite, t)
        I1 == shift_left(I)
        P1 == shift_left(P)
        lI1 == shift_left(left_I)
        lP1 == shift_left(left_P)
        stats == newest_stats(A, fin, l, m)
        M == set_last(shift_left(M_T), stats[1])
        Sig == set_last(shift_left(Sigma_T), stats[2])
        QT_new == QT_recurrence(QTs, A, l, m, td[2], stored_value(t))
        D == distance_profile(m, QT_new, stats, M, Sig, fin, excl_zone)
        P2 == insert_into_P(D, P1, Len(D))
        I2 == insert_into_I(D, P1, I1, Len(D), neighbor_index_egress(D, appended))
        own == scan_profile(D, 0, empty_row_P(k), empty_row_I(k),
                            own_offset_egress(appended))
    IN /\ T' = A
       /\ n_appended' = appended
       /\ T_isfinite' = fin
       /\ M_T' = M
       /\ Sigma_T' = Sig
       /\ P' = set_last(P2, own[1])
       /\ I' = set_last(I2, own[2])
       /\ left_P' = set_last(lP1, newest_left(own)[1])
       /\ left_I' = set_last(lI1, newest_left(own)[2])
       /\ QT' = QT_new
       /\ t_drop' = td
       /\ snap' = snap_after(TRUE, A)

(***************************************************************************)
(* _update(t)                                                              *)
(***************************************************************************)
\* mutant: t_drop read one slot too far, T_new[l]
t_drop_grow_next(A, l) == Finite(A[l + 1])

\* t_drop = T_new[l - 1]
t_drop_grow(A, l) == Finite(A[l])

UpdateGrow(t) ==
    LET n == Len(T)
        l == n - m + 1
        T_new == Append(T, stored_value(t))
        td == t_drop_grow(T_new, l)
        fin == Append(T_isfinite, IsFinite(t))
        stats == newest_stats(T_new, fin, l, m)
        M_T_new == Append(M_T, stats[1])
        Sigma_T_new == Append(Sigma_T, stats[2])
        QT_new == QT_recurrence(QT, T_new, l, m, td[2], stored_value(t))
        D == distance_profile(m, QT_new, stats, M_T_new, Sigma_T_new, fin, excl_zone)
        P2 == insert_into_P(D, P, l)
        I2 == insert_into_I(D, P, I, l, l)
        own == scan_profile(D, 0, empty_row_P(k), empty_row_I(k), 0)
    IN /\ T' = T_new
       /\ T_isfinite' = fin
       /\ P' = Append(P2, own[1])
       /\ I' = Append(I2, own[2])
       /\ left_P' = Append(left_P, newest_left(own)[1])
       /\ left_I' = Append(left_I, newest_left(own)[2])
       /\ QT' = QT_new
       /\ M_T' = M_T_new
       /\ Sigma_T' = Sigma_T_new
       /\ t_drop' = td
       /\ snap' = snap_after(FALSE, T_new)
       /\ UNCHANGED n_appended

(***************************************************************************)
(* update(t) and the accessors                                             *)
(***************************************************************************)
Update ==
    /\ pc = "ready"
    /\ UpdatesDone < MaxUpdates
    /\ \E t \in RawPoints :
          /\ IF egress THEN UpdateEgress(t) ELSE UpdateGrow(t)
          /\ stream' = Append(stream, t)
    /\ UNCHANGED <<pc, arg_T, m, k, egress, excl_zone, recomputed>>

\* a caller reads the five accessors
Read ==
    /\ pc = "ready"
    /\ ~snap.taken
    /\ snap' = [taken |-> TRUE, P_ |-> P_, I_ |-> I_, left_P_ |-> left_P_,
                left_I_ |-> left_I_, T_ |-> T_, seen_P |-> P_, seen_I |-> I_,
                seen_left_P |-> left_P_, seen_left_I |-> left_I_, seen_T |-> T_,
                T_shared |-> T_returns_buffer]
    /\ UNCHANGED <<stateVars, stream, recomputed, t_drop>>

Next == Construct \/ Update

Spec == Init /\ [][Next]_vars

\* the same program with a caller that also reads the accessors
NextRead == Construct \/ Update \/ Read

SpecRead == Init /\ [][NextRead]_vars

(***************************************************************************)
(* Properties.                                                             *)
(***************************************************************************)
Ready == pc = "ready"

Rows == Len(P)

\* the batch algorithm applied to the whole stream (the seed and every appended point)
BatchOnStream == stump(preprocess_T(stream), isfinite_of(stream), m, k, excl_zone)

\* C1: without egress, after any number of updates the top-k distance table P and
\* the left profile left_P equal, row for row, the top-k profile and the left
\* profile the batch algorithm computes on the seed extended with the appended points.
C1_BatchEquivalence ==
    (Ready /\ ~egress) =>
        LET batch == BatchOnStream
        IN P = batch.P /\ left_P = batch.left_P

\* C1 witness: two or more points appended without egress, k = 2, the newest row
\* full and a seed row whose nearest neighbour is an appended window.
C1_Witness ==
    /\ Ready /\ ~egress /\ k = 2 /\ UpdatesDone >= 2
    /\ IsFiniteD(P[Rows][2])
    /\ \E i \in 1..(Len(arg_T) - m + 1) : I[i][1] > Len(arg_T) - m

\* C2: with egress len(T) stays what it was at initialization, without egress it
\* grows by exactly one per update call; in both modes P, I, left_P, left_I, M_T,
\* Sigma_T and QT each have len(T) - m + 1 rows.
C2_Lengths ==
    Ready =>
        /\ Len(T) = Len(arg_T) + (IF egress THEN 0 ELSE UpdatesDone)
        /\ Len(P) = Len(T) - m + 1 /\ Len(I) = Len(T) - m + 1
        /\ Len(left_P) = Len(T) - m + 1 /\ Len(left_I) = Len(T) - m + 1
        /\ Len(M_T) = Len(T) - m + 1 /\ Len(Sigma_T) = Len(T) - m + 1
        /\ Len(QT) = Len(T) - m + 1
        /\ Len(T_isfinite) = Len(T)

\* C2 witness: a state after two updates in either mode.
C2_Witness == Ready /\ UpdatesDone >= 2 /\ Rows >= 2

\* the start position in the stream of the subsequence at buffer position i
\* (0-based): i + n_appended with egress, i itself without (n_appended stays 0)
GlobalIndex(i) == i + n_appended

\* C3 as stated: in every reachable state, with or without egress, every
\* position i has left_I[i] <= i.
C3_LeftIndexAtMostPosition ==
    Ready => \A i \in 0..(Rows - 1) : left_I[i + 1] <= i

\* C3 amended: left_I[i] is -1 (exactly when left_P[i] is +inf) or a stream
\* index at most i + n_appended, the stream position of subsequence i; without
\* egress that is left_I[i] <= i.
C3_LeftIndexCausal ==
    Ready => \A i \in 0..(Rows - 1) :
        /\ left_I[i + 1] >= -1
        /\ left_I[i + 1] <= GlobalIndex(i)
        /\ (left_I[i + 1] = -1) <=> (left_P[i + 1] = Inf)
        /\ ~egress => left_I[i + 1] <= i

\* C3 witness: after egress updates the newest subsequence has a left neighbour
\* whose index exceeds its buffer position, and an older row has one too.
C3_Witness ==
    /\ Ready /\ egress /\ UpdatesDone >= 2
    /\ left_I[Rows] > Rows - 1
    /\ \E i \in 1..(Rows - 1) : left_I[i] >= 0 /\ left_I[i] < left_I[Rows]

\* C4: the left distance is never below the unrestricted top-1 distance, and for
\* the subsequence added by the latest update the two agree in distance and index.
C4_LeftNotBelowTop1 ==
    Ready =>
        /\ \A i \in 1..Rows : DLeq(P[i][1], left_P[i])
        /\ UpdatesDone >= 1 => (left_P[Rows] = P[Rows][1] /\ left_I[Rows] = I[Rows][1])

\* C4 witness: after an update with k = 2, one row has a finite left distance
\* strictly above its top-1 and the newest row has two distinct finite distances.
C4_Witness ==
    /\ Ready /\ UpdatesDone >= 1 /\ k = 2
    /\ \E i \in 1..Rows : IsFiniteD(left_P[i]) /\ DLess(P[i][1], left_P[i])
    /\ IsFiniteD(P[Rows][2]) /\ DLess(P[Rows][1], P[Rows][2])

\* C5 as stated: in every reachable state, with or without egress, every stored
\* neighbour index I[i, j] /= -1 has |I[i, j] - i| > e for the array position i.
C5_ExclusionByPosition ==
    Ready => \A i \in 0..(Rows - 1) : \A r \in 1..k :
        I[i + 1][r] /= -1 => Abs(I[i + 1][r] - i) > excl_zone

\* C5 amended: every stored neighbour index is more than e = ceil(m / denom)
\* away from i + n_appended, the stream position of subsequence i (from i
\* itself without egress).
C5_ExclusionZone ==
    Ready =>
        /\ excl_zone = CeilDiv(m, STUMPY_EXCL_ZONE_DENOM)
        /\ \A i \in 0..(Rows - 1) : \A r \in 1..k :
              I[i + 1][r] /= -1 => Abs(I[i + 1][r] - GlobalIndex(i)) > excl_zone

\* C5 witness: after two egress updates a row holds a neighbour index within e
\* of its buffer position, and a row holds the index of an appended window.
C5_Witness ==
    /\ Ready /\ egress /\ UpdatesDone >= 2
    /\ \E i \in 0..(Rows - 1) : \E r \in 1..k :
          I[i + 1][r] /= -1 /\ Abs(I[i + 1][r] - i) <= excl_zone
    /\ \E i \in 1..(Rows - 1) : \E r \in 1..k : I[i][r] >= Rows

\* C6: every row of P is non-decreasing from rank 0 to rank k - 1, and no
\* non-negative neighbour index occurs twice in a row of I.
C6_RankingOrder ==
    Ready => \A i \in 1..Rows :
        /\ Len(P[i]) = k /\ Len(I[i]) = k
        /\ \A r \in 1..(k - 1) : DLeq(P[i][r], P[i][r + 1])
        /\ \A r1, r2 \in 1..k : (r1 < r2 /\ I[i][r1] >= 0) => I[i][r1] /= I[i][r2]

\* C6 witness: k = 2 and, after two updates, a row that received two appended
\* windows at different distances.
C6_Witness ==
    /\ Ready /\ k = 2 /\ UpdatesDone >= 2
    /\ \E i \in 1..Rows :
          /\ I[i][1] >= Len(arg_T) - m + 1 /\ I[i][2] >= Len(arg_T) - m + 1
          /\ DLess(P[i][1], P[i][2])

\* the newest window (the last m points of the stream) holds a non-finite point
NewestHoldsNonFinite ==
    \E x \in (Len(stream) - m + 1)..Len(stream) : x >= 1 /\ ~IsFinite(stream[x])

\* the row of the state before an update that array position i (1-based) held
Survivor(i) == IF egress THEN i + 1 ELSE i

\* C7: in every update whose newest window holds a non-finite point (the update
\* that appends it and the m - 1 updates after it) the newest subsequence gets a
\* top-k row of +inf with indices -1, left_P = +inf and left_I = -1, and no
\* existing row receives it as a neighbour; the buffer holds 0 at every
\* non-finite point and its finiteness flag is false.
C7_NonFinitePropagation ==
    [][(Ready /\ stream' /= stream /\ NewestHoldsNonFinite')
        => /\ \A r \in 1..k : P'[Len(P')][r] = Inf /\ I'[Len(I')][r] = -1
           /\ left_P'[Len(left_P')] = Inf /\ left_I'[Len(left_I')] = -1
           /\ \A i \in 1..(Len(P') - 1) : P'[i] = P[Survivor(i)] /\ I'[i] = I[Survivor(i)]
           /\ \A x \in 1..Len(T') :
                 /\ T_isfinite'[x] = IsFinite(stream'[x + n_appended'])
                 /\ ~T_isfinite'[x] => T'[x] = 0]_vars

\* C7 witness: the m - 1-th update after a non-finite point, all later points
\* finite: the newest row is +inf / -1 while an older row has a finite neighbour.
C7_Witness ==
    /\ Ready /\ UpdatesDone >= m
    /\ ~IsFinite(stream[Len(stream) - m + 1])
    /\ \A x \in (Len(stream) - m + 2)..Len(stream) : IsFinite(stream[x])
    /\ P[Rows][1] = Inf /\ I[Rows][1] = -1 /\ left_I[Rows] = -1
    /\ \E i \in 1..(Rows - 1) : IsFiniteD(P[i][1])
    /\ \E x \in 1..Len(T) : ~T_isfinite[x] /\ T[x] = 0

\* C8: initialization fails, leaving no state, exactly when m exceeds the length
\* of the seed series or k < 1; no failure arises after construction (update
\* never fails).
C8_ConfigErrors ==
    /\ pc = "failed" =>
          /\ WindowTooLarge(m, Len(arg_T)) \/ BadK(k)
          /\ (m > Len(arg_T) \/ k < 1)
          /\ stream = <<>> /\ T = <<>> /\ P = <<>> /\ I = <<>>
          /\ left_P = <<>> /\ left_I = <<>> /\ QT = <<>>
    /\ Ready => (m <= Len(arg_T) /\ k >= 1)

\* C8 witness: a construction refused because the window is longer than the seed.
C8_Witness == pc = "failed" /\ m > Len(arg_T) /\ k >= 1 /\ T = <<>>

\* C9: a value obtained from an accessor before an update is what the caller
\* still sees after that and every later update, with and without egress.
C9_SnapshotsStable ==
    snap.taken =>
        /\ snap.seen_P = snap.P_ /\ snap.seen_I = snap.I_
        /\ snap.seen_left_P = snap.left_P_ /\ snap.seen_left_I = snap.left_I_
        /\ snap.seen_T = snap.T_

\* C10: with egress every stored neighbour index is a start position in the
\* stream: the index g at rank r of array position i names a window of the
\* stream, and P[i, r] is the distance between the stream windows i + n_appended
\* and g; the newest window is entered in older rows as (n - m) + n_appended, and
\* the indices of its own row are buffer positions plus n_appended.
C10_GlobalIndexing ==
    (Ready /\ egress) =>
        LET A == preprocess_T(stream)
            fin == isfinite_of(stream)
        IN /\ n_appended = UpdatesDone
           /\ \A i \in 0..(Rows - 1) : \A r \in 1..k :
                 LET g == I[i + 1][r]
                 IN IF g = -1 THEN P[i + 1][r] = Inf
                    ELSE /\ g >= 0 /\ g <= (Len(T) - m) + n_appended
                         /\ P[i + 1][r] = window_distance(A, fin, m, GlobalIndex(i), g)
           /\ UpdatesDone >= 1 =>
                 \A r \in 1..k : I[Rows][r] /= -1 =>
                     (I[Rows][r] - n_appended) \in 0..(Rows - 1)

\* C10 witness: after two egress updates with k = 2 an older row holds the index
\* (n - m) + n_appended of the newest window and the newest row is full.
C10_Witness ==
    /\ Ready /\ egress /\ k = 2 /\ UpdatesDone >= 2
    /\ \E i \in 1..(Rows - 1) : \E r \in 1..k : I[i][r] = (Len(T) - m) + n_appended
    /\ I[Rows][2] >= n_appended

\* C11: after initialization and after every update, with and without egress,
\* QT[j] is the dot product of window j, T[j .. j + m - 1], with the most recent
\* window (the last m points of T): the recurrence for the positions >= 1 and the
\* direct product for position 0 give what the sliding dot product computed from
\* scratch gives.
C11_QTInvariant ==
    Ready =>
        /\ QT = sliding_dot_product(T, Len(T) - m, m)
        /\ \A j \in 0..(Rows - 1) : QT[j + 1] = Dot(T, j, Len(T) - m, m)

\* C11 witness: after two updates, four windows whose dot products with the most
\* recent window differ, the oldest of them not zero (so the recurrence carried
\* a value over both updates).
C11_Witness ==
    /\ Ready /\ UpdatesDone >= 2 /\ Rows >= 4
    /\ QT[1] /= 0 /\ QT[2] /= QT[1] /\ QT[Rows] > QT[2]
    /\ t_drop[1] /\ t_drop[2] /= 0

\* an egress update whose recurrence has positions >= 1 (l = n - m >= 1)
EgressRecurrenceStep == Ready /\ egress /\ stream' /= stream /\ Len(T) > m

\* C12 as stated: in update_egress the value t_drop that the QT recurrence
\* subtracts is the value evicted from the front of the buffer in this step, the
\* element that was T[0] before the shift.
C12_TDropIsEvicted ==
    [][EgressRecurrenceStep => t_drop' = Finite(T[1])]_vars

\* C12 amended: the t_drop the recurrence subtracts is the first point of the
\* previous most recent window: the element that was T[n - m] before the shift,
\* which is T[l - 1] = T[n - m - 1] after it.
C12_TDropLeavesQueryWindow ==
    [][EgressRecurrenceStep =>
          /\ t_drop' = Finite(T[Len(T) - m + 1])
          /\ t_drop' = Finite(T'[Len(T') - m])]_vars

\* C12 witness: after an egress update on a buffer longer than the window, t_drop
\* is the stream point that left the most recent window and differs from the
\* point that left the buffer.
C12_Witness ==
    /\ Ready /\ egress /\ UpdatesDone >= 1 /\ Len(T) > m
    /\ t_drop = Finite(stored_value(stream[n_appended + Len(T) - m]))
    /\ t_drop /= Finite(stored_value(stream[n_appended]))

\* the distance profile D of the most recent window against every window, as
\* the update that produced the state computed it
CandidateProfile ==
    distance_profile(m, QT, <<M_T[Rows], Sigma_T[Rows]>>, M_T, Sigma_T, T_isfinite, excl_zone)

\* the index under which the most recent window is entered in the older rows
NewestIndex == GlobalIndex(Rows - 1)

\* the row with v placed at rank r (1-based), the entries from r on moved down by
\* one and the last one discarded
PlacedAt(row, r, v) ==
    Array([q \in 1..Len(row) |-> IF q < r THEN row[q] ELSE IF q = r THEN v ELSE row[q - 1]])

\* an update step
UpdateStep == Ready /\ stream' /= stream

\* C13: a candidate distance d enters a row only if it is strictly smaller than
\* the row's worst (rank k - 1) entry, so +inf or a candidate equal to the worst
\* entry displaces nothing; it is placed immediately after the entries <= d
\* (after the last equal one), the lower ranks move down by one, the previous
\* worst is discarded, and the index row changes at exactly the same rank.  In
\* the newest row, built by the same insertion in scan order, equal distances
\* keep the order of their indices.
C13_RankedInsertion ==
    [][UpdateStep =>
        \A D \in {CandidateProfile'} :
          /\ \A i \in 1..(Len(P') - 1) :
                LET rP == P[Survivor(i)]
                    rI == I[Survivor(i)]
                    d == D[i]
                IN IF DLess(d, rP[k])
                   THEN \E r \in 1..k :
                           /\ \A q \in 1..(r - 1) : DLeq(rP[q], d)
                           /\ \A q \in r..k : DLess(d, rP[q])
                           /\ P'[i] = PlacedAt(rP, r, d)
                           /\ I'[i] = PlacedAt(rI, r, NewestIndex')
                   ELSE P'[i] = rP /\ I'[i] = rI
          /\ \A r1, r2 \in 1..k :
                (r1 < r2 /\ IsFiniteD(P'[Len(P')][r2]) /\ P'[Len(P')][r1] = P'[Len(P')][r2])
                    => I'[Len(I')][r1] < I'[Len(I')][r2]]_vars

\* C13 witness: k = 2; the latest update placed the newest window at rank 1 of a
\* row, after an entry at the same distance, and left alone another row whose
\* worst entry is at exactly the candidate's finite distance.
C13_Witness ==
    /\ Ready /\ k = 2 /\ UpdatesDone >= 1
    /\ \E i \in 1..(Rows - 1) :
          /\ I[i][2] = NewestIndex /\ I[i][1] >= 0
          /\ P[i][1] = P[i][2] /\ P[i][2] = CandidateProfile[i]
    /\ \E j \in 1..(Rows - 1) :
          /\ IsFiniteD(CandidateProfile[j]) /\ CandidateProfile[j] = P[j][2]
          /\ I[j][1] /= NewestIndex /\ I[j][2] /= NewestIndex

\* C14: at initialization the left distance is recomputed from the dot product
\* of window i and window left_I[i] exactly for the positions i with
\* left_I[i] >= 0 and left_I[i] /= I[i, 0]; where left_I[i] = I[i, 0], left_P[i]
\* is copied from P[i, 0] without recomputation, and where left_I[i] = -1,
\* left_P[i] stays +inf.
C14_BackfillOnlyWhereDiffers ==
    (Ready /\ UpdatesDone = 0) =>
        /\ recomputed = {i \in 0..(Rows - 1) :
                            left_I[i + 1] >= 0 /\ left_I[i + 1] /= I[i + 1][1]}
        /\ \A i \in 1..Rows :
              /\ (left_I[i] = I[i][1] /\ (i - 1) \notin recomputed) => left_P[i] = P[i][1]
              /\ left_I[i] = -1 => left_P[i] = Inf

\* C15: for every subsequence present before an update and still present after
\* it (the same position without egress, one slot closer to the front with
\* egress) the update leaves left_P and left_I unchanged and changes the top-k
\* row by at most one insertion of the newest window; no entry is removed or
\* rewritten because the neighbour it points to was evicted, so no rank's
\* distance of a surviving subsequence increases.
C15_UpdateFrame ==
    [][UpdateStep =>
          /\ Len(P') = (IF egress THEN Len(P) ELSE Len(P) + 1)
          /\ \A i \in 1..(Len(P') - 1) :
                LET s == Survivor(i)
                IN /\ left_P'[i] = left_P[s] /\ left_I'[i] = left_I[s]
                   /\ \/ P'[i] = P[s] /\ I'[i] = I[s]
                      \/ \E r \in 1..k :
                            /\ P'[i] = PlacedAt(P[s], r, P'[i][r])
                            /\ I'[i] = PlacedAt(I[s], r, NewestIndex')
                   /\ \A r \in 1..k : DLeq(P'[i][r], P[s][r])]_vars

\* C15 witness: after two egress updates with k = 2, a surviving row still holds
\* the index of a window evicted from the buffer next to the index of a window
\* that arrived later, and a surviving left index names an evicted window.
C15_Witness ==
    /\ Ready /\ egress /\ k = 2 /\ UpdatesDone >= 2
    /\ \E i \in 1..(Rows - 1) : \E r1, r2 \in 1..k :
          /\ I[i][r1] >= 0 /\ I[i][r1] < n_appended
          /\ I[i][r2] > Len(arg_T) - m
    /\ \E i \in 1..(Rows - 1) : left_I[i] >= 0 /\ left_I[i] < n_appended

====
